---- MODULE Spec2Model ----
(***************************************************************************)
(* Model of the 2D Ising lattice and its Metropolis driver (src/ising.py). *)
(*                                                                         *)
(* Two specifications:                                                     *)
(*   Spec     main(): construct the lattice, run() the epochs, print the   *)
(*            observables.                                                 *)
(*   SpecObs  the set-up of src/test.py: a lattice whose grid is assigned  *)
(*            directly, on which one method is evaluated.                  *)
(*                                                                         *)
(* Real numbers: a quotient is kept as a record [num, den]; exp() and the  *)
(* uniform draw are kept in millionths (floor(10^6 * x)).                  *)
(***************************************************************************)
EXTENDS Integers, FiniteSets, Sequences, TLC

VARIABLES pc, size, T, system, epochs, video, epoch, frames, last, bcArgs,
          accessed, err, res

vars == <<pc, size, T, system, epochs, video, epoch, frames, last, bcArgs,
          accessed, err, res>>

(* ------------------------------ bounds --------------------------------- *)

\* largest lattice side of SpecObs
MaxSize == 3
\* largest lattice side of the short runs of Spec
MaxRunSize == 2
\* largest number of epochs of the short runs of Spec
MaxShortEpochs == 2

\* the 75 of `epoch % (epochs//75)`
FrameDivisor == 75

Temps == {-1, 1}
InitialStates == {"r", "u", "x"}
\* the arguments (temperature, initial_state, size, epochs, video) handed to
\* main(): every short run, and on the 1 x 1 and 2 x 2 lattices the shortest
\* video run whose frame interval epochs//75 is not 0
MainArgs ==
    (Temps \X InitialStates \X ((-1)..MaxRunSize)
        \X (1..MaxShortEpochs) \X BOOLEAN)
    \cup (Temps \X {"r", "u"} \X {1, 2} \X {FrameDivisor} \X {TRUE})
\* values of np.random.rand(), in millionths
UChoices == {0, 1000, 500000}
NoDraw == -1

NoEpoch == [N |-> -1, M |-> -1, dE |-> 0, u |-> NoDraw]
NoRes == [op |-> "none"]

(* ------------------------------ lattice -------------------------------- *)

Coords(n) == 0..(n - 1)

\* the index pairs of an n x n array
sqr_size(n) == Coords(n) \X Coords(n)

Abs(x) == IF x < 0 THEN -x ELSE x

\* np.sum over the first k cells (row-major) of an n x n array
RECURSIVE SumCells(_, _, _)
SumCells(sys, n, k) ==
    IF k = 0 THEN 0
    ELSE sys[<<(k - 1) \div n, (k - 1) % n>>] + SumCells(sys, n, k - 1)

np_sum(sys, n) == SumCells(sys, n, n * n)

\* IsingLattice._build_system: the arrays it can return
\* (np.ones holds 1.0, equal to the integer 1)
build_system(initial_state, n) ==
    IF initial_state = "r" THEN [sqr_size(n) -> {-1, 1}]
    ELSE {[c \in sqr_size(n) |-> 1]}

\* _bc with the upper test off by one
_bc_gt(n, i) ==
    IF i > n THEN 0
    ELSE IF i < 0 THEN n - 1
    ELSE i

\* IsingLattice._bc
_bc(n, i) ==
    IF i >= n THEN 0
    ELSE IF i < 0 THEN n - 1
    ELSE i

\* energy without the factor 2
energy_site(sys, n, N, M) ==
    -1 * sys[<<N, M>>] * (
        sys[<<_bc(n, N - 1), M>>] + sys[<<_bc(n, N + 1), M>>]
        + sys[<<N, _bc(n, M - 1)>>] + sys[<<N, _bc(n, M + 1)>>])

\* energy with the sign of the flipped spin
energy_flipped(sys, n, N, M) ==
    2 * sys[<<N, M>>] * (
        sys[<<_bc(n, N - 1), M>>] + sys[<<_bc(n, N + 1), M>>]
        + sys[<<N, _bc(n, M - 1)>>] + sys[<<N, _bc(n, M + 1)>>])

\* IsingLattice.energy
energy(sys, n, N, M) ==
    -2 * sys[<<N, M>>] * (
        sys[<<_bc(n, N - 1), M>>] + sys[<<_bc(n, N + 1), M>>]
        + sys[<<N, _bc(n, M - 1)>>] + sys[<<N, _bc(n, M + 1)>>])

\* the arguments energy(N, M) passes to _bc
energy_bc_args(N, M) == {N - 1, N + 1, M - 1, M + 1}

\* the array cells energy(N, M) reads
energy_reads(n, N, M) ==
    {<<N, M>>, <<_bc(n, N - 1), M>>, <<_bc(n, N + 1), M>>,
     <<N, _bc(n, M - 1)>>, <<N, _bc(n, M + 1)>>}

\* E and E_2 of internal_energy over the first k cells
RECURSIVE SumEnergy(_, _, _)
SumEnergy(sys, n, k) ==
    IF k = 0 THEN [E |-> 0, E_2 |-> 0]
    ELSE LET e == energy(sys, n, (k - 1) \div n, (k - 1) % n)
             r == SumEnergy(sys, n, k - 1)
         IN  [E |-> r.E + e, E_2 |-> r.E_2 + e * e]

\* IsingLattice.internal_energy: U = E / size^2, U_2 = E_2 / size^2
internal_energy(sys, n) ==
    LET s == SumEnergy(sys, n, n * n)
    IN  [U |-> [num |-> s.E, den |-> n * n],
         U_2 |-> [num |-> s.E_2, den |-> n * n]]

\* IsingLattice.heat_capacity: U_2 - U**2
heat_capacity(sys, n) ==
    LET ie == internal_energy(sys, n)
    IN  [num |-> ie.U_2.num * ie.U.den * ie.U.den
                 - ie.U.num * ie.U.num * ie.U_2.den,
         den |-> ie.U_2.den * ie.U.den * ie.U.den]

\* magnetization without np.abs
magnetization_signed(sys, n) ==
    [num |-> np_sum(sys, n), den |-> n * n]

\* magnetization divided by size instead of size**2
magnetization_per_row(sys, n) ==
    [num |-> Abs(np_sum(sys, n)), den |-> n]

\* IsingLattice.magnetization: np.abs(np.sum(system) / size**2)
magnetization(sys, n) ==
    [num |-> Abs(np_sum(sys, n)), den |-> n * n]

(* ------------------------------- driver -------------------------------- *)

\* a flip that clears the spin
flip_clear(sys, N, M) == [sys EXCEPT ![<<N, M>>] = 0]

\* a flip applied to the whole row N
flip_row(sys, N, M) ==
    [c \in DOMAIN sys |-> IF c[1] = N THEN -1 * sys[c] ELSE sys[c]]

\* lattice.system[N, M] *= -1
flip(sys, N, M) == [sys EXCEPT ![<<N, M>>] = -1 * sys[<<N, M>>]]

\* np.exp(-q) in millionths, for the quotients E / T the model produces
exp_neg(q) ==
    CASE q = 4 -> 18315
      [] q = 8 -> 335
      [] OTHER -> 0

\* np.exp(-E / lattice.T) in millionths, for E > 0 and T # 0:
\* T < 0 gives a value above 1
accept_threshold(E, temp) ==
    IF temp > 0 THEN exp_neg(E \div temp)
    ELSE 1000000 + E

\* the draw compared the wrong way round
draw_accepts_lt(E, temp, u) == accept_threshold(E, temp) < u

\* the branch of run() that draws: exp(-E/T) > np.random.rand()
draw_accepts(E, temp, u) == accept_threshold(E, temp) > u

\* the epoch's decision, for E = -1 * lattice.energy(N, M)
flips(E, temp, u) == E <= 0 \/ draw_accepts(E, temp, u)

\* main() up to the lattice: IsingLattice.__init__ on main's arguments
\* (np.ones / np.random.choice reject a negative shape with ValueError, as
\* _build_system rejects an unknown state)
Construct ==
    /\ pc = "start"
    /\ \E a \in MainArgs :
         LET temperature == a[1]
             initial_state == a[2]
             n == a[3]
         IN  /\ size' = n
             /\ T' = temperature
             /\ epochs' = a[4]
             /\ video' = a[5]
             /\ IF initial_state \in {"r", "u"} /\ n >= 0
                THEN /\ system' \in build_system(initial_state, n)
                     /\ pc' = "built"
                     /\ err' = "none"
                ELSE /\ system' = system
                     /\ pc' = "config_error"
                     /\ err' = "ValueError"
    /\ UNCHANGED <<epoch, frames, last, bcArgs, accessed, res>>

\* run(): entry, up to the first iteration of the loop
BeginRun ==
    /\ pc = "built"
    /\ epoch' = 0
    /\ frames' = 0
    /\ pc' = "loop"
    /\ UNCHANGED <<size, T, system, epochs, video, last, bcArgs, accessed,
                   err, res>>

\* run(): one iteration of the loop
Epoch ==
    /\ pc = "loop"
    /\ epoch < epochs
    /\ IF size <= 0
       THEN \* np.random.randint(0, 0, 2) raises ValueError
            /\ pc' = "aborted"
            /\ err' = "ValueError"
            /\ UNCHANGED <<system, epoch, frames, last, bcArgs, accessed>>
       ELSE \E N \in Coords(size), M \in Coords(size) :
              LET E == -1 * energy(system, size, N, M)
              IN  \* np.random.rand() is called only when E > 0
                  \E u \in IF E <= 0 THEN {NoDraw} ELSE UChoices :
                  /\ system' = IF flips(E, T, u) THEN flip(system, N, M)
                                ELSE system
                  /\ last' = [N |-> N, M |-> M, dE |-> E, u |-> u]
                  /\ bcArgs' = energy_bc_args(N, M)
                  /\ accessed' = energy_reads(size, N, M)
                  /\ IF video /\ epochs \div FrameDivisor = 0
                     THEN \* epoch % 0 raises ZeroDivisionError
                          /\ pc' = "aborted"
                          /\ err' = "ZeroDivisionError"
                          /\ UNCHANGED <<epoch, frames>>
                     ELSE /\ frames' =
                               IF video /\ epoch % (epochs \div FrameDivisor) = 0
                               THEN frames + 1 ELSE frames
                          /\ epoch' = epoch + 1
                          /\ pc' = IF epoch + 1 = epochs THEN "ran" ELSE "loop"
                          /\ err' = err
    /\ UNCHANGED <<size, T, epochs, video, res>>

\* main(): the two prints after run()
Report ==
    /\ pc = "ran"
    /\ res' = [op |-> "report",
               magnetization |-> magnetization(system, size),
               heat_capacity |-> heat_capacity(system, size)]
    /\ bcArgs' = UNION {energy_bc_args(c[1], c[2]) : c \in sqr_size(size)}
    /\ accessed' = UNION {energy_reads(size, c[1], c[2]) : c \in sqr_size(size)}
    /\ pc' = "done"
    /\ UNCHANGED <<size, T, system, epochs, video, epoch, frames, last, err>>

Init ==
    /\ pc = "start"
    /\ size = 0
    /\ T = 0
    /\ system = <<>>
    /\ epochs = 0
    /\ video = FALSE
    /\ epoch = 0
    /\ frames = 0
    /\ last = NoEpoch
    /\ bcArgs = {}
    /\ accessed = {}
    /\ err = "none"
    /\ res = NoRes

Next == Construct \/ BeginRun \/ Epoch \/ Report

Spec == Init /\ [][Next]_vars

(* --------------------- the lattice of src/test.py ---------------------- *)

\* IsingLattice(temperature=1, initial_state='u', size=n), then
\* lattice.system = <an n x n array of +1 and -1>
InitObs ==
    /\ pc = "lattice"
    /\ size \in 1..MaxSize
    /\ T = 1
    /\ system \in [sqr_size(size) -> {-1, 1}]
    /\ epochs = 0
    /\ video = FALSE
    /\ epoch = 0
    /\ frames = 0
    /\ last = NoEpoch
    /\ bcArgs = {}
    /\ accessed = {}
    /\ err = "none"
    /\ res = NoRes

ObsFrame == UNCHANGED <<pc, size, T, system, epochs, video, epoch, frames,
                        last, bcArgs, accessed, err>>

\* r = IsingLattice._bc(self, i)
EvalBc ==
    /\ pc = "lattice" /\ res = NoRes
    /\ \E i \in (-1)..size :
         res' = [op |-> "_bc", i |-> i, val |-> _bc(size, i)]
    /\ ObsFrame

\* _e = lattice.energy(*i)
EvalEnergy ==
    /\ pc = "lattice" /\ res = NoRes
    /\ \E N \in Coords(size), M \in Coords(size) :
         res' = [op |-> "energy", N |-> N, M |-> M,
                 val |-> energy(system, size, N, M)]
    /\ ObsFrame

\* _m = lattice.magnetization
EvalMagnetization ==
    /\ pc = "lattice" /\ res = NoRes
    /\ res' = [op |-> "magnetization", val |-> magnetization(system, size)]
    /\ ObsFrame

\* lattice.heat_capacity
EvalHeatCapacity ==
    /\ pc = "lattice" /\ res = NoRes
    /\ res' = [op |-> "heat_capacity", val |-> heat_capacity(system, size)]
    /\ ObsFrame

NextObs == EvalBc \/ EvalEnergy \/ EvalMagnetization \/ EvalHeatCapacity

SpecObs == InitObs /\ [][NextObs]_vars

(* ------------------------------ properties ----------------------------- *)

Built == pc \in {"built", "loop", "aborted", "ran", "done"}

Minus(sys) == {c \in DOMAIN sys : sys[c] = -1}
Plus(sys) == {c \in DOMAIN sys : sys[c] = 1}

\* index i reduced modulo n
Mod(i, n) == (i + n) % n

\* the four nearest neighbours of (N, M) on the periodic n x n grid:
\* up, down, left, right
Neighbours(n, N, M) ==
    <<  <<Mod(N - 1, n), M>>, <<Mod(N + 1, n), M>>,
        <<N, Mod(M - 1, n)>>, <<N, Mod(M + 1, n)>>  >>

NeighbourSum(sys, n, N, M) ==
    LET nb == Neighbours(n, N, M)
    IN  sys[nb[1]] + sys[nb[2]] + sys[nb[3]] + sys[nb[4]]

\* how many of the four neighbours carry the spin of (N, M)
Agreeing(sys, n, N, M) ==
    Cardinality({k \in 1..4 : sys[Neighbours(n, N, M)[k]] = sys[<<N, M>>]})

\* C1: every spin of a constructed lattice is +1 or -1 in every state of
\* the run, the grid is size x size, and the sum of the spins is an integer
\* of the parity of size^2 minus twice the number of -1 spins.
C1_SpinsStayPlusMinusOne ==
    Built =>
        /\ DOMAIN system = sqr_size(size)
        /\ \A c \in DOMAIN system : system[c] \in {-1, 1}
        /\ np_sum(system, size) \in Int
        /\ np_sum(system, size) % 2
             = (size * size - 2 * Cardinality(Minus(system))) % 2

\* a run that has flipped spins: both signs present after two epochs
C1_Witness ==
    /\ pc \in {"loop", "ran"} /\ epoch >= 2 /\ size >= 2
    /\ Minus(system) # {} /\ Plus(system) # {}

\* C2: in each epoch, with (N, M) the selected site and dE = -energy(N, M)
\* on the lattice the previous epoch left: dE <= 0 always flips; dE > 0
\* flips exactly when exp(-dE/T) > u for the drawn u; otherwise the lattice
\* is left as it was.
C2_MetropolisRule ==
    [][(pc = "loop" /\ size > 0) =>
         LET N == last'.N
             M == last'.M
             dE == -1 * energy(system, size, N, M)
             flipped == [system EXCEPT ![<<N, M>>] = -system[<<N, M>>]]
         IN  /\ last'.dE = dE
             /\ dE <= 0 => system' = flipped
             /\ dE > 0 =>
                  /\ last'.u \in UChoices
                  /\ IF accept_threshold(dE, T) > last'.u
                     THEN system' = flipped
                     ELSE system' = system]_vars

\* an epoch whose draw was accepted, and one decided without a draw
C2_Witness ==
    /\ pc \in {"loop", "ran"} /\ T = 1
    /\ last.dE > 0 /\ last.u = 0
    /\ system[<<last.N, last.M>>] = -1

RECURSIVE BondSum(_, _, _)
BondSum(sys, n, k) ==
    IF k = 0 THEN 0
    ELSE LET i == (k - 1) \div n
             j == (k - 1) % n
         IN  sys[<<i, j>>] * (sys[<<Mod(i + 1, n), j>>] + sys[<<i, Mod(j + 1, n)>>])
             + BondSum(sys, n, k - 1)

TotalEnergy(sys, n) == -1 * BondSum(sys, n, n * n)

FlipChange(sys, n, N, M) ==
    TotalEnergy([sys EXCEPT ![<<N, M>>] = -sys[<<N, M>>]], n)
        - TotalEnergy(sys, n)

\* the driver's dE is the change of the total energy, and a flip that
\* lowers the total energy is accepted at every temperature and draw
DeltaIsFlipChange ==
    LET dE == -1 * res.val
        change == FlipChange(system, size, res.N, res.M)
    IN  /\ dE = change
        /\ change < 0 =>
             \A t \in Temps, u \in UChoices \cup {NoDraw} : flips(dE, t, u)

\* C4 as stated: for every lattice size, dE = -energy(N, M) is the change
\* of the total interaction energy that flipping (N, M) causes.
C4_DeltaIsFlipChange_AllSizes ==
    res.op = "energy" => DeltaIsFlipChange

\* C4 amended: the same for every lattice size of at least 2.
C4_DeltaIsFlipChange ==
    (res.op = "energy" /\ size >= 2) => DeltaIsFlipChange

\* a flip on a 3 x 3 lattice that lowers the total energy
C4_Witness ==
    /\ res.op = "energy" /\ size = 3
    /\ FlipChange(system, size, res.N, res.M) = -4

\* C5: _bc maps size to 0, -1 to size-1 and i in [0, size) to itself; in a
\* run it is called only with -1 <= i <= size, returns an index in
\* [0, size), and every cell energy() or the flip touches is in the grid.
C5_BoundaryInRange ==
    Built =>
        /\ _bc(size, size) = 0
        /\ _bc(size, -1) = size - 1
        /\ \A i \in Coords(size) : _bc(size, i) = i
        /\ \A i \in bcArgs :
             /\ -1 <= i /\ i <= size
             /\ _bc(size, i) \in Coords(size)
        /\ accessed \subseteq sqr_size(size)
        /\ last # NoEpoch => <<last.N, last.M>> \in sqr_size(size)

\* an epoch at the corner whose neighbours wrap on both sides
C5_Witness ==
    /\ pc \in {"loop", "ran"} /\ size >= 2
    /\ -1 \in bcArgs /\ size \in bcArgs

\* C6: magnetization is |sum of the spins| / size^2: within [0, 1], 1 for
\* the all +1 and the all -1 lattice, unchanged when every spin is negated.
C6_Magnetization ==
    res.op = "magnetization" =>
        LET m == res.val
            total == Cardinality(Plus(system)) - Cardinality(Minus(system))
            negated == [c \in DOMAIN system |-> -system[c]]
        IN  /\ m.den > 0
            /\ m.num * (size * size) = Abs(total) * m.den
            /\ 0 <= m.num /\ m.num <= m.den
            /\ (Minus(system) = {} \/ Plus(system) = {}) => m.num = m.den
            /\ magnetization(negated, size) = m

\* the magnetization of a 3 x 3 lattice with more -1 than +1 spins
C6_Witness ==
    /\ res.op = "magnetization" /\ size = 3
    /\ Cardinality(Minus(system)) = 5
    /\ res.val.num = 1

SevenOfNine ==
    /\ res.op = "magnetization"
    /\ size = 3
    /\ Cardinality(Plus(system)) = 7
    /\ Cardinality(Minus(system)) = 2

\* C7 as stated: a 3 x 3 lattice with exactly 7 spins +1 has
\* magnetization 7/9.
C7_SevenOfNine_IsSevenNinths ==
    SevenOfNine => res.val.num * 9 = 7 * res.val.den

\* C7 amended: a 3 x 3 lattice with exactly 7 spins +1 has
\* magnetization 5/9.
C7_SevenOfNine_IsFiveNinths ==
    SevenOfNine => res.val.num * 9 = 5 * res.val.den

\* the magnetization of a 3 x 3 lattice whose two -1 spins are neighbours
C7_Witness ==
    /\ SevenOfNine
    /\ system[<<0, 0>>] = -1 /\ system[<<0, 1>>] = -1

\* C8: construction yields a lattice only for size > 0 and temperature > 0
\* (and a valid initial_state); every other configuration fails.
C8_ConstructionValidates ==
    Built => (size > 0 /\ T > 0)

\* C9: on a valid lattice run() never stops early, with video on or off:
\* it performs exactly `epochs` iterations and then returns.
C9_RunCompletes ==
    (size > 0 /\ T > 0) =>
        /\ pc # "aborted"
        /\ pc \in {"ran", "done"} => epoch = epochs
        /\ pc = "loop" => epoch < epochs

\* C10: an epoch changes at most the spin of the selected site and a
\* rejected proposal changes nothing; entering run(), sampling a frame and
\* printing the observables change no spin; size and temperature never
\* change once the lattice is built.
C10_OnlyTheSelectedSpinChanges ==
    [][/\ Built => (size' = size /\ T' = T
                    /\ DOMAIN system' = DOMAIN system)
       /\ pc = "loop" =>
            /\ \A c \in DOMAIN system :
                 c # <<last'.N, last'.M>> => system'[c] = system[c]
            /\ (last' # NoEpoch /\ last'.dE > 0
                /\ ~(accept_threshold(last'.dE, T) > last'.u))
                  => system' = system
       /\ pc \in {"built", "ran"} => system' = system]_vars

\* a sampled epoch whose proposal was rejected
C10_Witness ==
    /\ pc \in {"loop", "ran"} /\ T = 1 /\ size >= 2
    /\ frames >= 2
    /\ last.dE > 0 /\ last.u = 500000

====
